---- MODULE Spec2Model ----
(***************************************************************************)
(* Case/control matching of match_controls_forPlot.py: match_samples with  *)
(* its helpers orderDict, order_keys and stable_marriage.                  *)
(*                                                                         *)
(* The metadata table is a sequence of rows (the DataFrame's index order). *)
(* Row i has the sample id i, the label case_control[i] and the cells      *)
(* covariates[i][column].  A cell is the text of the table: a sequence of  *)
(* characters.  A python dict is a sequence of <<key, value>> pairs in     *)
(* insertion order.  The unmatched mark '0' of matched_to is the number 0, *)
(* which is no sample id.                                                  *)
(***************************************************************************)
EXTENDS Integers, Sequences, FiniteSets, TLC

\* Bounds of the checked instances.
NumRecords == 3      \* rows of the table in the specification Spec
MaxVal == 2          \* the numeric cells of Spec are "0" .. "MaxVal"
GraphRows == 6       \* rows of the table in the specification SpecGraph

VARIABLES
    case_control,                   \* row -> 'case' | 'control' | 'Unspecified'
    covariates,                     \* row -> [column -> cell]
    conditions_for_match_lines,     \* the lines of the match file, split at the tabs
    matched_to,                     \* the column 'matched_to' of matchDF
    pc,                             \* where match_samples is
    case_i,                         \* cases iterated so far by the loop at line 344
    case_dictionary,
    control_match_count_dictionary,
    case_match_count_dictionary,
    case_orig,
    dictionary_pref,                \* stable_marriage's parameter (shares its lists with case_dictionary)
    free_keys,
    one_to_one_match_dictionary,
    exit_code,                      \* the argument of sys.exit, 0 while running
    popped,                         \* history: the keys popped at line 291, in order
    proposals                       \* history: the <<key, entry>> popped at line 295, in order

vars == <<case_control, covariates, conditions_for_match_lines, matched_to, pc,
          case_i, case_dictionary, control_match_count_dictionary,
          case_match_count_dictionary, case_orig, dictionary_pref, free_keys,
          one_to_one_match_dictionary, exit_code, popped, proposals>>

-----------------------------------------------------------------------------
\* Python dicts, as sequences of <<key, value>> in insertion order.

DictKeys(d) == [i \in 1..Len(d) |-> d[i][1]]

DictHas(d, k) == \E i \in 1..Len(d) : d[i][1] = k

\* d[k]; a missing key is python's KeyError (no value: TLC reports the CHOOSE).
DictGet(d, k) == d[CHOOSE i \in 1..Len(d) : d[i][1] = k][2]

\* d[k] = v, d.update({k: v}): a present key keeps its place, a new one goes last.
DictSet(d, k, v) ==
    IF DictHas(d, k)
    THEN [i \in 1..Len(d) |-> IF d[i][1] = k THEN <<k, v>> ELSE d[i]]
    ELSE Append(d, <<k, v>>)

\* list.insert(index, value), index counted from 0.
ListInsert(list, index, value) ==
    SubSeq(list, 1, index) \o <<value>> \o SubSeq(list, index + 1, Len(list))

\* The list without its last element (what list.pop() leaves).
ListFront(list) == SubSeq(list, 1, Len(list) - 1)

ListLast(list) == list[Len(list)]

SeqToSet(s) == {s[i] : i \in 1..Len(s)}

-----------------------------------------------------------------------------
\* float() and pd.to_numeric on the text of a cell.  Only unsigned digit
\* strings are in the checked tables; any other text is not a number.

DigitChars == <<"0", "1", "2", "3", "4", "5", "6", "7", "8", "9">>

IsDigit(ch) == \E i \in 1..Len(DigitChars) : DigitChars[i] = ch

DigitValue(ch) == (CHOOSE i \in 1..Len(DigitChars) : DigitChars[i] = ch) - 1

\* Whether float(text) returns (True) or raises ValueError (False).
IsNumber(text) == Len(text) > 0 /\ \A i \in 1..Len(text) : IsDigit(text[i])

RECURSIVE float(_)
float(text) ==
    IF Len(text) = 0 THEN 0
    ELSE 10 * float(ListFront(text)) + DigitValue(ListLast(text))

-----------------------------------------------------------------------------
\* The table.

Rows == [i \in 1..Len(case_control) |-> i]

\* matchDF[matchDF['case_control'].isin([label])].index, in index order.
RowsLabelled(label) ==
    LET Is(i) == case_control[i] = label IN SelectSeq(Rows, Is)

case_for_matchDF == RowsLabelled("case")

\* A line of the match file: <<type, column, number>> is line.split('\t').
ConditionType(line) == line[1]
ConditionColumn(line) == line[2]
ConditionNum(line) == line[3]

\* A slip at line 381: the upper end left out.
InRange_Strict(control_num, row_num, fnum) ==
    /\ control_num >= row_num - fnum
    /\ control_num < row_num + fnum

\* The range filter of lines 378-382, both ends included.
InRange(control_num, row_num, fnum) ==
    /\ control_num >= row_num - fnum
    /\ control_num <= row_num + fnum

\* A slip at line 385: the filtered frame is not assigned and every control
\* is kept.
IsIn_Any(control_cell, case_cell) == TRUE

\* The exact filter of line 385: isin([case value]).
IsIn(control_cell, case_cell) == control_cell = case_cell

\* Lines 352-385 from condition number i on: the controls left in controlDF,
\* or the exit code of the first sys.exit reached.
RECURSIVE ApplyConditions(_, _, _)
ApplyConditions(case_index, controlDF, i) ==
    IF i > Len(conditions_for_match_lines)
    THEN [exit |-> 0, controlDF |-> controlDF]
    ELSE
        LET conditions == conditions_for_match_lines[i]
            column_name == ConditionColumn(conditions)
            case_cell == covariates[case_index][column_name]
            num == ConditionNum(conditions)
            Cell(id) == covariates[id][column_name]
        IN  IF ConditionType(conditions) = "range"
            THEN
                IF ~IsNumber(case_cell) THEN [exit |-> 1, controlDF |-> <<>>]
                ELSE IF ~IsNumber(num) THEN [exit |-> 1, controlDF |-> <<>>]
                ELSE IF \E j \in 1..Len(controlDF) : ~IsNumber(Cell(controlDF[j]))
                     THEN [exit |-> 2, controlDF |-> <<>>]
                ELSE
                    LET Keep(id) == InRange(float(Cell(id)), float(case_cell), float(num))
                    IN  ApplyConditions(case_index, SelectSeq(controlDF, Keep), i + 1)
            ELSE
                LET Keep(id) == IsIn(Cell(id), case_cell)
                IN  ApplyConditions(case_index, SelectSeq(controlDF, Keep), i + 1)

\* Lines 348-385 for one case.
CompatibleControls(case_index) ==
    ApplyConditions(case_index, RowsLabelled("control"), 1)

\* Lines 392-395: one more case for every control left in controlDF.
RECURSIVE CountControls(_, _, _)
CountControls(counts, controlDF, j) ==
    IF j > Len(controlDF) THEN counts
    ELSE
        LET id_control == controlDF[j]
            started == IF DictHas(counts, id_control) THEN counts
                       ELSE DictSet(counts, id_control, 0)
        IN  CountControls(
                DictSet(started, id_control, DictGet(started, id_control) + 1),
                controlDF, j + 1)

\* A slip at lines 359-375: the error is printed and the case is passed over
\* with no control in place of sys.exit.
EvaluateCase_Skip ==
    /\ pc = "evaluate"
    /\ case_i < Len(case_for_matchDF)
    /\ LET case_index == case_for_matchDF[case_i + 1]
           result == CompatibleControls(case_index)
       IN  /\ case_dictionary' = DictSet(case_dictionary, case_index, result.controlDF)
           /\ control_match_count_dictionary' =
                  CountControls(control_match_count_dictionary, result.controlDF, 1)
           /\ case_match_count_dictionary' =
                  DictSet(case_match_count_dictionary, case_index, Len(result.controlDF))
           /\ case_i' = case_i + 1
           /\ exit_code' = result.exit
           /\ UNCHANGED pc
    /\ UNCHANGED <<case_control, covariates, conditions_for_match_lines, matched_to,
                   case_orig, dictionary_pref, free_keys, one_to_one_match_dictionary,
                   popped, proposals>>

\* One pass of the loop at line 344.
EvaluateCase ==
    /\ pc = "evaluate"
    /\ case_i < Len(case_for_matchDF)
    /\ LET case_index == case_for_matchDF[case_i + 1]
           result == CompatibleControls(case_index)
       IN  IF result.exit # 0
           THEN /\ pc' = "exited"
                /\ exit_code' = result.exit
                /\ UNCHANGED <<case_i, case_dictionary, control_match_count_dictionary,
                               case_match_count_dictionary>>
           ELSE /\ case_dictionary' = DictSet(case_dictionary, case_index, result.controlDF)
                /\ control_match_count_dictionary' =
                       CountControls(control_match_count_dictionary, result.controlDF, 1)
                /\ case_match_count_dictionary' =
                       DictSet(case_match_count_dictionary, case_index, Len(result.controlDF))
                /\ case_i' = case_i + 1
                /\ UNCHANGED <<pc, exit_code>>
    /\ UNCHANGED <<case_control, covariates, conditions_for_match_lines, matched_to,
                   case_orig, dictionary_pref, free_keys, one_to_one_match_dictionary,
                   popped, proposals>>

-----------------------------------------------------------------------------
\* orderDict, lines 184-226.

Min(S) == CHOOSE x \in S : \A y \in S : x <= y

\* A slip at line 215: >= in place of >.
MoreFrequent_OrEqual(ordered_value, value, value_frequency) ==
    DictGet(value_frequency, ordered_value) >= DictGet(value_frequency, value)

\* Line 215: the element already placed is matched more often than value.
MoreFrequent(ordered_value, value, value_frequency) ==
    DictGet(value_frequency, ordered_value) > DictGet(value_frequency, value)

\* Lines 212-220: where value goes: before the first element placed that is
\* more frequent, and last when there is none.
InsertIndex(ordered_array, value, value_frequency) ==
    LET before == {index \in 0..(Len(ordered_array) - 1) :
                       MoreFrequent(ordered_array[index + 1], value, value_frequency)}
    IN  IF before = {} THEN Len(ordered_array) ELSE Min(before)

\* Lines 208-222: the loop over unordered_array from position count on.
RECURSIVE OrderArray(_, _, _, _)
OrderArray(unordered_array, value_frequency, ordered_array, count) ==
    IF count >= Len(unordered_array) THEN ordered_array
    ELSE
        LET value == unordered_array[count + 1]
        IN  OrderArray(unordered_array, value_frequency,
                ListInsert(ordered_array,
                           InsertIndex(ordered_array, value, value_frequency), value),
                count + 1)

\* A slip at line 208: ordered_array is emptied once, before the loop over
\* the keys, and every key's array is sorted into what the keys before left.
RECURSIVE SharedArray(_, _, _)
SharedArray(dictionary, value_frequency, i) ==
    IF i = 0 THEN <<>>
    ELSE OrderArray(dictionary[i][2], value_frequency,
                    SharedArray(dictionary, value_frequency, i - 1), 0)

orderDict_Shared(dictionary, value_frequency) ==
    [i \in 1..Len(dictionary) |->
        <<dictionary[i][1],
          IF Len(dictionary[i][2]) = 0 THEN dictionary[i][2]
          ELSE SharedArray(dictionary, value_frequency, i)>>]

\* An empty array is left as it is (line 205); the keys keep their order.
orderDict(dictionary, value_frequency) ==
    [i \in 1..Len(dictionary) |->
        LET unordered_array == dictionary[i][2]
        IN  <<dictionary[i][1],
              IF Len(unordered_array) = 0 THEN unordered_array
              ELSE OrderArray(unordered_array, value_frequency, <<>>, 0)>>]

-----------------------------------------------------------------------------
\* order_keys, lines 232-261.

\* A slip at line 254: >= in place of >.
MoreAbundant_OrEqual(dictionary, key, list_key) ==
    Len(DictGet(dictionary, key)) >= Len(DictGet(dictionary, list_key))

\* Line 254: key has more values than list_key.
MoreAbundant(dictionary, key, list_key) ==
    Len(DictGet(dictionary, key)) > Len(DictGet(dictionary, list_key))

\* Lines 246-259 from the i-th key of the dictionary on.
RECURSIVE OrderKeysFrom(_, _, _)
OrderKeysFrom(dictionary, keys_greatest_to_least, i) ==
    IF i > Len(dictionary) THEN keys_greatest_to_least
    ELSE
        LET key == dictionary[i][1]
            before == {index \in 0..(Len(keys_greatest_to_least) - 1) :
                          MoreAbundant(dictionary, key, keys_greatest_to_least[index + 1])}
        IN  OrderKeysFrom(dictionary,
                IF keys_greatest_to_least = <<>> \/ before = {}
                THEN Append(keys_greatest_to_least, key)
                ELSE ListInsert(keys_greatest_to_least, Min(before), key),
                i + 1)

order_keys(dictionary) == OrderKeysFrom(dictionary, <<>>, 1)

-----------------------------------------------------------------------------
\* match_samples, lines 414-417: the cases are all evaluated.
OrderDict ==
    /\ pc = "evaluate"
    /\ case_i = Len(case_for_matchDF)
    /\ case_orig' = case_dictionary
    /\ case_dictionary' = orderDict(case_dictionary, control_match_count_dictionary)
    /\ pc' = "ordered"
    /\ UNCHANGED <<case_control, covariates, conditions_for_match_lines, matched_to,
                   case_i, control_match_count_dictionary, case_match_count_dictionary,
                   dictionary_pref, free_keys, one_to_one_match_dictionary, exit_code,
                   popped, proposals>>

\* Line 419 and lines 287-289: the call of stable_marriage.  The copy of the
\* dictionary is shallow: dictionary_pref holds the lists of case_dictionary.
StableMarriageStart ==
    /\ pc = "ordered"
    /\ dictionary_pref' = case_dictionary
    /\ free_keys' = order_keys(case_dictionary)
    /\ one_to_one_match_dictionary' = <<>>
    /\ pc' = "matching"
    /\ UNCHANGED <<case_control, covariates, conditions_for_match_lines, matched_to,
                   case_i, case_dictionary, control_match_count_dictionary,
                   case_match_count_dictionary, case_orig, exit_code, popped, proposals>>

-----------------------------------------------------------------------------
\* stable_marriage, lines 290-305.

\* A slip at line 300: the comparison turned round.
Displaces_Greater(key, key_in_use, pref_counts_case) ==
    DictGet(pref_counts_case, key) > DictGet(pref_counts_case, key_in_use)

\* A slip at line 300: a key with as many values as key_in_use takes entry too.
Displaces_OrEqual(key, key_in_use, pref_counts_case) ==
    DictGet(pref_counts_case, key) <= DictGet(pref_counts_case, key_in_use)

\* A slip at line 300: the lengths of the lists as they are now, after the
\* pop of line 295, are compared in place of the counts.
Displaces_CurrentLength(key, key_in_use, pref_counts_case) ==
    Len(DictGet(dictionary_pref, key)) - 1 < Len(DictGet(dictionary_pref, key_in_use))

\* Line 300: key takes entry from key_in_use.
Displaces(key, key_in_use, pref_counts_case) ==
    DictGet(pref_counts_case, key) < DictGet(pref_counts_case, key_in_use)

\* A slip at lines 297, 301: the pair is stored the other way round.
Engage_Swapped(match_dictionary, entry, key) == DictSet(match_dictionary, key, entry)

\* Lines 297, 301: one_to_one_match_dictionary[entry] = key.
Engage(match_dictionary, entry, key) == DictSet(match_dictionary, entry, key)

\* Line 302: the key that lost entry is free again.
FreeDisplaced(keys, key, key_in_use) == Append(keys, key_in_use)

\* A slip at line 304: the key that was turned down is not appended.
FreeRejected_Dropped(keys, key, key_in_use) == keys

\* Line 304: the key that was turned down is free again.
FreeRejected(keys, key, key_in_use) == Append(keys, key)

\* Line 295: dictionary_pref[key].pop() takes the last entry.
PopEntry(list) == ListLast(list)

\* A slip at line 295: the last entry is read and not removed.
PopRest_Kept(list) == list

\* Line 295: what the pop leaves in the list.
PopRest(list) == ListFront(list)

\* A slip at line 293: the key with nothing left is appended again.
Retire_Again(keys, key) == Append(keys, key)

\* Lines 292-293: a key with nothing left in its list is not appended again.
Retire(keys, key) == keys

\* One pass of the loop at line 290.
Propose ==
    /\ pc = "matching"
    /\ free_keys # <<>>
    /\ LET key == ListLast(free_keys)
           keys == ListFront(free_keys)
           list == DictGet(dictionary_pref, key)
       IN  /\ popped' = Append(popped, key)
           /\ IF Len(list) = 0
              THEN /\ free_keys' = Retire(keys, key)
                   /\ UNCHANGED <<dictionary_pref, case_dictionary,
                                  one_to_one_match_dictionary, proposals>>
              ELSE
                  LET entry == PopEntry(list)
                      key_in_use == DictGet(one_to_one_match_dictionary, entry)
                  IN  /\ dictionary_pref' = DictSet(dictionary_pref, key, PopRest(list))
                      /\ case_dictionary' = DictSet(case_dictionary, key, PopRest(list))
                      /\ proposals' = Append(proposals, <<key, entry>>)
                      /\ IF ~DictHas(one_to_one_match_dictionary, entry)
                         THEN /\ one_to_one_match_dictionary' =
                                     Engage(one_to_one_match_dictionary, entry, key)
                              /\ free_keys' = keys
                         ELSE IF Displaces(key, key_in_use, case_match_count_dictionary)
                         THEN /\ one_to_one_match_dictionary' =
                                     Engage(one_to_one_match_dictionary, entry, key)
                              /\ free_keys' = FreeDisplaced(keys, key, key_in_use)
                         ELSE /\ free_keys' = FreeRejected(keys, key, key_in_use)
                              /\ UNCHANGED one_to_one_match_dictionary
    /\ UNCHANGED <<case_control, covariates, conditions_for_match_lines, matched_to, pc,
                   case_i, control_match_count_dictionary, case_match_count_dictionary,
                   case_orig, exit_code>>

\* Lines 290 (free_keys is empty), 305 and 420: stable_marriage returns and
\* case_dictionary is the unordered dictionary again.
StableMarriageReturn ==
    /\ pc = "matching"
    /\ free_keys = <<>>
    /\ case_dictionary' = case_orig
    /\ pc' = "matched"
    /\ UNCHANGED <<case_control, covariates, conditions_for_match_lines, matched_to,
                   case_i, control_match_count_dictionary, case_match_count_dictionary,
                   case_orig, dictionary_pref, free_keys, one_to_one_match_dictionary,
                   exit_code, popped, proposals>>

\* A slip at lines 427-428: only the control's row is written.
WritePair_ControlOnly(column, key, key_value) == [column EXCEPT ![key] = key_value]

\* Lines 427-428: the control's row gets the case and the case's row the control.
WritePair(column, key, key_value) ==
    [[column EXCEPT ![key] = key_value] EXCEPT ![key_value] = key]

\* Lines 425-428 from the i-th pair of case_to_control_match on.
RECURSIVE WriteMatches(_, _, _)
WriteMatches(column, case_to_control_match, i) ==
    IF i > Len(case_to_control_match) THEN column
    ELSE WriteMatches(WritePair(column, case_to_control_match[i][1],
                                case_to_control_match[i][2]),
                      case_to_control_match, i + 1)

\* Lines 425-434.
WriteBack ==
    /\ pc = "matched"
    /\ matched_to' = WriteMatches(matched_to, one_to_one_match_dictionary, 1)
    /\ pc' = "returned"
    /\ UNCHANGED <<case_control, covariates, conditions_for_match_lines, case_i,
                   case_dictionary, control_match_count_dictionary,
                   case_match_count_dictionary, case_orig, dictionary_pref, free_keys,
                   one_to_one_match_dictionary, exit_code, popped, proposals>>

Next ==
    \/ EvaluateCase
    \/ OrderDict
    \/ StableMarriageStart
    \/ Propose
    \/ StableMarriageReturn
    \/ WriteBack

-----------------------------------------------------------------------------
\* The state at line 343: matched_to is '0' in every row (line 339) and the
\* dictionaries are empty (lines 331-334).
Start(labels, cells, lines) ==
    /\ case_control = labels
    /\ covariates = cells
    /\ conditions_for_match_lines = lines
    /\ matched_to = [i \in 1..Len(labels) |-> 0]
    /\ pc = "evaluate"
    /\ case_i = 0
    /\ case_dictionary = <<>>
    /\ control_match_count_dictionary = <<>>
    /\ case_match_count_dictionary = <<>>
    /\ case_orig = <<>>
    /\ dictionary_pref = <<>>
    /\ free_keys = <<>>
    /\ one_to_one_match_dictionary = <<>>
    /\ exit_code = 0
    /\ popped = <<>>
    /\ proposals = <<>>

\* Spec: every table of NumRecords rows with one column, every row a case, a
\* control or neither, every cell a number up to MaxVal or a text that is no
\* number, under one or two conditions on that column (exact, or range with
\* tolerance 0, 1 or a text that is no number).
Labels == {"case", "control", "Unspecified"}

Cells == {<<DigitChars[v + 1]>> : v \in 0..MaxVal} \cup {<<"x">>}

Nums == {<<"0">>, <<"1">>, <<"x">>}

Lines == {<<"exact", 1, <<"=">>>>} \cup {<<"range", 1, num>> : num \in Nums}

\* One line, or two different lines in either order (a range line whose
\* third field is no number stands alone or beside the exact line).
LineLists ==
    {<<a>> : a \in Lines} \cup
    {pair \in {<<a, b>> : a \in Lines, b \in Lines} :
        /\ pair[1] # pair[2]
        /\ \/ "exact" \in {ConditionType(pair[1]), ConditionType(pair[2])}
           \/ IsNumber(ConditionNum(pair[1])) /\ IsNumber(ConditionNum(pair[2]))}

\* The cell of a row that is neither a case nor a control is never read
\* (lines 337 and 346 keep the cases and the controls): it is "0" here.
Init ==
    \E labels \in [1..NumRecords -> Labels],
       cells \in [1..NumRecords -> [{1} -> Cells]],
       lines \in LineLists :
        /\ \A i \in 1..NumRecords : labels[i] = "Unspecified" => cells[i][1] = <<"0">>
        /\ Start(labels, cells, lines)

Spec == Init /\ [][Next]_vars

\* SpecGraph: every compatibility graph between the cases and the controls
\* of a table of GraphRows rows, the cases first.  Column c tells which
\* controls suit case c: under "range c 1" the case's "0" is within 1 of a
\* control's "1" and not of its "2", and the "1" of the other cases is within
\* 1 of both.
GraphCell(graph, num_cases, i, column) ==
    IF i <= num_cases
    THEN IF i = column THEN <<"0">> ELSE <<"1">>
    ELSE IF i \in graph[column] THEN <<"1">> ELSE <<"2">>

InitGraph ==
    \E num_cases \in 1..(GraphRows - 1) :
        \E graph \in [1..num_cases -> SUBSET ((num_cases + 1)..GraphRows)] :
            Start([i \in 1..GraphRows |-> IF i <= num_cases THEN "case" ELSE "control"],
                  [i \in 1..GraphRows |->
                       [column \in 1..num_cases |-> GraphCell(graph, num_cases, i, column)]],
                  [column \in 1..num_cases |-> <<"range", column, <<"1">>>>])

SpecGraph == InitGraph /\ [][Next]_vars

\* The loop at line 290 has no suspension point: while free_keys is not empty
\* the next pass is made.
FairSpecGraph == SpecGraph /\ WF_vars(Propose)

-----------------------------------------------------------------------------
\* What the claims speak of.

\* The compatibility map as the evaluator built it: case_dictionary until
\* orderDict replaces it (line 417), and case_orig from then on.
CompatibilityMap == IF pc \in {"evaluate", "exited"} THEN case_dictionary ELSE case_orig

\* The Assignment: the pairs <<control, case>>.
Assignment == {one_to_one_match_dictionary[i] : i \in 1..Len(one_to_one_match_dictionary)}

AssignedControls == {pair[1] : pair \in Assignment}

AssignedCases == {pair[2] : pair \in Assignment}

\* The controls that key has proposed to, and the cases that proposed to entry.
ProposedTo(key) == {proposals[i][2] : i \in {j \in 1..Len(proposals) : proposals[j][1] = key}}

Proposers(entry) == {proposals[i][1] : i \in {j \in 1..Len(proposals) : proposals[j][2] = entry}}

\* C1: in every state of the matching loop, and in the Assignment returned,
\* no control is assigned to two cases and no case is the value of two controls.
C1_Injective ==
    \A i, j \in 1..Len(one_to_one_match_dictionary) :
        (\/ one_to_one_match_dictionary[i][1] = one_to_one_match_dictionary[j][1]
         \/ one_to_one_match_dictionary[i][2] = one_to_one_match_dictionary[j][2])
        => i = j

\* C1's case: stable_marriage has returned two pairs or more, and a control
\* was proposed to by two cases on the way.
C1_Witness ==
    /\ pc = "matched"
    /\ Len(one_to_one_match_dictionary) >= 2
    /\ \E entry \in AssignedControls : Cardinality(Proposers(entry)) >= 2

\* C2: every pair <<control, case>> of the Assignment has the control in the
\* compatibility set that the evaluator computed for the case.
C2_Compatible ==
    \A pair \in Assignment :
        /\ DictHas(CompatibilityMap, pair[2])
        /\ pair[1] \in SeqToSet(DictGet(CompatibilityMap, pair[2]))

\* C2's case: a pair is assigned to a case that is not compatible with every
\* control.
C2_Witness ==
    /\ pc = "matching"
    /\ \E pair \in Assignment :
           \E other \in 1..Len(case_control) :
               /\ case_control[other] = "control"
               /\ other \notin SeqToSet(DictGet(CompatibilityMap, pair[2]))

\* The size of a maximum one-to-one matching of the cases from the i-th on
\* with the controls outside used.
RECURSIVE MaxMatching(_, _, _)
MaxMatching(dictionary, i, used) ==
    IF i > Len(dictionary) THEN 0
    ELSE
        LET skip == MaxMatching(dictionary, i + 1, used)
            free == SeqToSet(dictionary[i][2]) \ used
            take == {1 + MaxMatching(dictionary, i + 1, used \cup {k}) : k \in free}
        IN  IF \E n \in take : n > skip THEN CHOOSE n \in take : \A m \in take : m <= n
            ELSE skip

\* C3: the Assignment that stable_marriage returns has as many pairs as a
\* maximum one-to-one matching of the compatibility graph.
C3_MaximumMatching ==
    pc = "matched" =>
        Len(one_to_one_match_dictionary) = MaxMatching(case_orig, 1, {})

\* The cases of the run, once stable_marriage has its dictionary.
Cases == SeqToSet(DictKeys(dictionary_pref))

Count(list, x) == Cardinality({i \in 1..Len(list) : list[i] = x})

\* The loop condition of line 290 has just been found false.
LoopDone == pc = "matching" /\ free_keys = <<>>

\* The loop is over: at its end, or after stable_marriage returned.
Terminated == LoopDone \/ pc \in {"matched", "returned"}

\* A case that needs no further pass: it holds a control or its list is empty.
Settled(c) == c \in AssignedCases \/ Len(DictGet(dictionary_pref, c)) = 0

\* C4: the matching loop, once entered, reaches an empty free_keys, and then
\* every case is the value of some control or has an empty list left.
C4_Terminates == (pc = "matching") ~> (LoopDone /\ \A c \in Cases : Settled(c))

\* C4's case: the loop ends after a case was appended again, with a case
\* matched and a case left without a control.
C4_Witness ==
    /\ LoopDone
    /\ Len(popped) > Cardinality(Cases)
    /\ AssignedCases # {}
    /\ Cases \ AssignedCases # {}

\* C5: when the loop is over there is no case c and control k with k popped
\* from c's list, c not assigned to k, and k unassigned or held by a case
\* with more compatible controls than c.
C5_NoBlockingPair ==
    Terminated =>
        \A c \in Cases : \A k \in ProposedTo(c) :
            <<k, c>> \notin Assignment =>
                /\ k \in AssignedControls
                /\ ~(DictGet(case_match_count_dictionary, c)
                       < DictGet(case_match_count_dictionary,
                                 DictGet(one_to_one_match_dictionary, k)))

\* C5's case: the loop is over and a case proposed to a control that it does
\* not hold.
C5_Witness ==
    /\ Terminated
    /\ \E c \in Cases : \E k \in ProposedTo(c) : <<k, c>> \notin Assignment

\* c1 has exactly one compatible control, and every other case compatible
\* with it has more compatible controls than c1.
SoleControl(c1) == DictGet(case_orig, c1)[1]

ScarceCase(c1) ==
    /\ Len(DictGet(case_orig, c1)) = 1
    /\ \A c2 \in Cases \ {c1} :
           SoleControl(c1) \in SeqToSet(DictGet(case_orig, c2))
               => Len(DictGet(case_orig, c2)) > 1

\* C6: such a case c1 holds its control k in the final Assignment, and every
\* other case that proposed to k went on through its own list: it holds
\* another control or has nothing left to propose to.
C6_ScarceCaseWins ==
    Terminated =>
        \A c1 \in Cases :
            ScarceCase(c1) =>
                /\ <<SoleControl(c1), c1>> \in Assignment
                /\ \A c2 \in Proposers(SoleControl(c1)) \ {c1} : Settled(c2)

\* C6's case: a case proposed to k when c1 held it, was turned down, and
\* then got another control.
C6_Witness ==
    /\ Terminated
    /\ \E c1 \in Cases :
           /\ ScarceCase(c1)
           /\ \E i, j \in 1..Len(proposals) :
                  /\ i < j
                  /\ proposals[i] = <<c1, SoleControl(c1)>>
                  /\ proposals[j][2] = SoleControl(c1)
                  /\ proposals[j][1] \in AssignedCases

\* C7: no case pops the same control from its list twice in a run.
C7_NoRepeatedProposal ==
    \A i, j \in 1..Len(proposals) : proposals[i] = proposals[j] => i = j

\* C7's case: a case that was appended to free_keys again has proposed to a
\* second control.
C7_Witness ==
    \E key \in Cases :
        /\ Count(popped, key) >= 2
        /\ Cardinality(ProposedTo(key)) >= 2

\* The cases whose compatibility set is empty.
EmptyCases == {c \in Cases : Len(DictGet(case_orig, c)) = 0}

\* C8: a case with no compatible control is on free_keys until its first
\* pop and never after, is never in the Assignment, and when the loop is
\* over it has been popped once and every other case is settled.
C8_EmptyCase ==
    pc \in {"matching", "matched", "returned"} =>
        \A c \in EmptyCases :
            /\ c \notin AssignedCases
            /\ Count(popped, c) + Count(free_keys, c) = 1
            /\ Terminated =>
                   /\ Count(popped, c) = 1
                   /\ \A other \in Cases \ {c} : Settled(other)

\* C8's case: the loop is over, a case with no compatible control was popped
\* before a case that got a control, and a case with compatible controls was
\* turned down on the way.
C8_Witness ==
    /\ Terminated
    /\ \E c \in EmptyCases : \E i, j \in 1..Len(popped) :
           /\ i < j
           /\ popped[i] = c
           /\ popped[j] \in AssignedCases
    /\ Len(popped) > Cardinality(Cases)

SingleRange ==
    /\ Len(conditions_for_match_lines) = 1
    /\ ConditionType(conditions_for_match_lines[1]) = "range"
    /\ IsNumber(ConditionNum(conditions_for_match_lines[1]))

\* The number in the cell of a row under the one condition's column.
NumberOf(row) == float(covariates[row][ConditionColumn(conditions_for_match_lines[1])])

Tolerance == float(ConditionNum(conditions_for_match_lines[1]))

\* C10: under one range condition with tolerance t, the compatibility set of
\* a case holds exactly the controls whose number is at least the case's
\* less t and at most the case's plus t.
C10_RangeInclusive ==
    SingleRange =>
        \A i \in 1..Len(CompatibilityMap) :
            LET c == CompatibilityMap[i][1]
                controls == SeqToSet(CompatibilityMap[i][2])
            IN  \A row \in 1..Len(case_control) :
                    row \in controls <=>
                        /\ case_control[row] = "control"
                        /\ NumberOf(c) - Tolerance <= NumberOf(row)
                        /\ NumberOf(row) <= NumberOf(c) + Tolerance

\* C10's case: with tolerance 1 a case has the control one below it and the
\* control one above it in its compatibility set.
C10_Witness ==
    /\ SingleRange
    /\ Tolerance = 1
    /\ \E i \in 1..Len(CompatibilityMap) :
           LET c == CompatibilityMap[i][1]
               controls == SeqToSet(CompatibilityMap[i][2])
           IN  /\ \E row \in controls : NumberOf(row) = NumberOf(c) - 1
               /\ \E row \in controls : NumberOf(row) = NumberOf(c) + 1

\* The cases whose evaluation reaches a sys.exit: a range condition meets a
\* case value or a tolerance that is no number, or a control value that is
\* no number.
FailingCases == {c \in SeqToSet(case_for_matchDF) : CompatibleControls(c).exit # 0}

UnmatchedEverywhere == \A row \in 1..Len(matched_to) : matched_to[row] = 0

\* C11: when the evaluation of some case aborts, the run ends there: it never
\* gets past the evaluation, no pair is ever in the Assignment and every row
\* keeps the unmatched mark; a run that exits has exit code 1 or 2 and a run
\* that writes matched_to has no failing case.
C11_AllOrNothing ==
    /\ pc \notin {"evaluate", "exited"} => FailingCases = {}
    /\ pc \in {"evaluate", "exited"} => Assignment = {} /\ UnmatchedEverywhere
    /\ pc = "exited" => exit_code \in {1, 2} /\ FailingCases # {}

\* C11's case: the run exited at a later case, after a case was evaluated
\* and found to have a compatible control.
C11_Witness ==
    /\ pc = "exited"
    /\ case_i >= 1
    /\ \E i \in 1..Len(case_dictionary) : Len(case_dictionary[i][2]) > 0

\* The controls still in key's list when it makes its i-th recorded proposal:
\* its compatible controls less those it popped before.
RemainingAt(i) ==
    LET key == proposals[i][1]
        before == {proposals[j][2] : j \in {j \in 1..(i - 1) : proposals[j][1] = key}}
    IN  SeqToSet(DictGet(case_orig, key)) \ before

\* C13: whenever a case proposes, the control it pops is one of the scarcest
\* of the controls still in its list: none of them is compatible with fewer
\* cases.
C13_ScarcestFirst ==
    \A i \in 1..Len(proposals) :
        \A k \in RemainingAt(i) :
            DictGet(control_match_count_dictionary, proposals[i][2])
                <= DictGet(control_match_count_dictionary, k)

\* The lengths of the lists of a dictionary, from the i-th pair on, added up.
RECURSIVE SumLengths(_, _)
SumLengths(dictionary, i) ==
    IF i > Len(dictionary) THEN 0
    ELSE Len(dictionary[i][2]) + SumLengths(dictionary, i + 1)

\* C14 as stated: the passes of the loop (the pops of free_keys at line 291)
\* are at most the lengths of the cases' preference lists added up.
C14_Original == Len(popped) <= SumLengths(case_orig, 1)

\* C14: the passes of the loop are at most the lengths of the cases'
\* preference lists added up plus the number of cases: every pass pops a
\* control from a list or finds the list of its case empty, and a case is
\* found with an empty list at most once.
C14_IterationBound == Len(popped) <= SumLengths(case_orig, 1) + Len(case_orig)

\* C14's case: the loop is over, controls were popped, and there were more
\* passes than the lists have controls.
C14_Witness ==
    /\ Terminated
    /\ proposals # <<>>
    /\ Len(popped) > SumLengths(case_orig, 1)

\* C15: in a pass where case c proposes to control k, c becomes the holder
\* of k exactly when k had no holder or c has fewer compatible controls than
\* the holder.  When k had no holder the pair is added and nobody is
\* appended to free_keys; when c has as many or more, the Assignment is as
\* before and c alone is appended; when c has fewer, c replaces the holder
\* in the pair of k and the holder alone is appended.
C15_ProposalStep ==
    [][proposals' # proposals =>
        LET c == proposals'[Len(proposals')][1]
            k == proposals'[Len(proposals')][2]
            held == DictHas(one_to_one_match_dictionary, k)
            holder == DictGet(one_to_one_match_dictionary, k)
            wins == \/ ~held
                    \/ DictGet(case_match_count_dictionary, c)
                         < DictGet(case_match_count_dictionary, holder)
            rest == ListFront(free_keys)
        IN  /\ <<k, c>> \in Assignment' <=> wins
            /\ ~held =>
                   /\ one_to_one_match_dictionary' =
                          Append(one_to_one_match_dictionary, <<k, c>>)
                   /\ free_keys' = rest
            /\ ~wins =>
                   /\ one_to_one_match_dictionary' = one_to_one_match_dictionary
                   /\ free_keys' = Append(rest, c)
            /\ (held /\ wins) =>
                   /\ one_to_one_match_dictionary' =
                          [i \in 1..Len(one_to_one_match_dictionary) |->
                              IF one_to_one_match_dictionary[i][1] = k THEN <<k, c>>
                              ELSE one_to_one_match_dictionary[i]]
                   /\ free_keys' = Append(rest, holder)
    ]_vars

\* C15's case: a case has just proposed to a control whose holder has as
\* many compatible controls as it has: the holder keeps the control and the
\* case is back on free_keys.
C15_Witness ==
    /\ pc = "matching"
    /\ proposals # <<>>
    /\ free_keys # <<>>
    /\ LET c == proposals[Len(proposals)][1]
           k == proposals[Len(proposals)][2]
       IN  /\ ListLast(free_keys) = c
           /\ DictHas(one_to_one_match_dictionary, k)
           /\ DictGet(one_to_one_match_dictionary, k) # c
           /\ DictGet(case_match_count_dictionary, c)
                = DictGet(case_match_count_dictionary,
                          DictGet(one_to_one_match_dictionary, k))

\* C16: when a range condition with a numeric tolerance names a column in
\* which some case has a number and some control has a text that is no
\* number, the evaluation aborts: the run does not get past it.
C16_ColumnTypeError ==
    (\E i \in 1..Len(conditions_for_match_lines) :
        LET conditions == conditions_for_match_lines[i]
            Cell(row) == covariates[row][ConditionColumn(conditions)]
        IN  /\ ConditionType(conditions) = "range"
            /\ IsNumber(ConditionNum(conditions))
            /\ \E c \in SeqToSet(RowsLabelled("case")) : IsNumber(Cell(c))
            /\ \E k \in SeqToSet(RowsLabelled("control")) : ~IsNumber(Cell(k)))
    => pc \in {"evaluate", "exited"}

Distance(a, b) == IF a >= b THEN a - b ELSE b - a

\* The control k meets one condition for the case c: the same text under
\* exact; under range two numbers no further apart than the tolerance.
Satisfies(c, k, conditions) ==
    LET case_cell == covariates[c][ConditionColumn(conditions)]
        control_cell == covariates[k][ConditionColumn(conditions)]
        num == ConditionNum(conditions)
    IN  IF ConditionType(conditions) = "range"
        THEN /\ IsNumber(case_cell) /\ IsNumber(control_cell) /\ IsNumber(num)
             /\ Distance(float(control_cell), float(case_cell)) <= float(num)
        ELSE control_cell = case_cell

\* C17: the compatibility set stored for a case holds exactly the rows that
\* are controls and meet every condition of the list, whatever the order of
\* the list; a row that is a case or neither is in no set.
C17_Conjunctive ==
    \A i \in 1..Len(CompatibilityMap) :
        LET c == CompatibilityMap[i][1]
            controls == SeqToSet(CompatibilityMap[i][2])
        IN  \A row \in 1..Len(case_control) :
                row \in controls <=>
                    /\ case_control[row] = "control"
                    /\ \A j \in 1..Len(conditions_for_match_lines) :
                           Satisfies(c, row, conditions_for_match_lines[j])

\* C17's case: under an exact and a range condition a case has a control in
\* its set, and a control that meets one of the two conditions only is left
\* out.
C17_Witness ==
    /\ Len(conditions_for_match_lines) = 2
    /\ \E i \in 1..Len(CompatibilityMap) :
           LET c == CompatibilityMap[i][1]
               controls == SeqToSet(CompatibilityMap[i][2])
           IN  /\ controls # {}
               /\ \E row \in 1..Len(case_control) :
                      /\ case_control[row] = "control"
                      /\ row \notin controls
                      /\ \E j \in 1..2 : Satisfies(c, row, conditions_for_match_lines[j])

\* C18: no pass of the matching loop changes the two count dictionaries;
\* the count of a case is the number of compatible controls it had before
\* the matching started, and a case that proposes to a held control takes
\* it exactly when that number is smaller than the holder's, whatever is
\* left in the two lists by then.
C18_CountsFrozen ==
    [][pc = "matching" =>
        /\ case_match_count_dictionary' = case_match_count_dictionary
        /\ control_match_count_dictionary' = control_match_count_dictionary
        /\ \A c \in Cases :
               DictGet(case_match_count_dictionary, c) = Len(DictGet(case_orig, c))
        /\ proposals' # proposals =>
               LET c == proposals'[Len(proposals')][1]
                   k == proposals'[Len(proposals')][2]
               IN  DictHas(one_to_one_match_dictionary, k) =>
                       (<<k, c>> \in Assignment' <=>
                            Len(DictGet(case_orig, c))
                              < Len(DictGet(case_orig,
                                            DictGet(one_to_one_match_dictionary, k))))
    ]_vars

\* C18's case: a case was turned down by a holder that has as many or fewer
\* compatible controls, though by now the case has fewer controls left in
\* its list than the holder has.
C18_Witness ==
    /\ pc = "matching"
    /\ proposals # <<>>
    /\ free_keys # <<>>
    /\ LET c == proposals[Len(proposals)][1]
           k == proposals[Len(proposals)][2]
       IN  /\ ListLast(free_keys) = c
           /\ DictHas(one_to_one_match_dictionary, k)
           /\ DictGet(one_to_one_match_dictionary, k) # c
           /\ Len(DictGet(dictionary_pref, c))
                < Len(DictGet(dictionary_pref, DictGet(one_to_one_match_dictionary, k)))

\* The place of x in a list that holds it once.
PositionIn(list, x) == CHOOSE i \in 1..Len(list) : list[i] = x

\* output holds the elements of input, each as often as input does, from the
\* least frequent to the most frequent, and elements of the same frequency
\* in the order they have in input.
IsStableSort(input, output, value_frequency) ==
    /\ Len(output) = Len(input)
    /\ \A x \in SeqToSet(input) \cup SeqToSet(output) : Count(output, x) = Count(input, x)
    /\ \A a, b \in 1..Len(output) :
           a < b =>
               /\ DictGet(value_frequency, output[a]) <= DictGet(value_frequency, output[b])
               /\ DictGet(value_frequency, output[a]) = DictGet(value_frequency, output[b])
                      => PositionIn(input, output[a]) < PositionIn(input, output[b])

\* C19: the dictionary that orderDict returns has the keys of its input in
\* the same order, and for every key the input list sorted from the least
\* to the most frequent control, controls of the same frequency in their
\* input order; the input dictionary (kept as case_orig) still holds, then
\* and ever after, the lists that the evaluator stored.
C19_OrderDict ==
    /\ pc = "ordered" =>
           /\ Len(case_dictionary) = Len(case_orig)
           /\ \A i \in 1..Len(case_orig) :
                  /\ case_dictionary[i][1] = case_orig[i][1]
                  /\ IsStableSort(case_orig[i][2], case_dictionary[i][2],
                                  control_match_count_dictionary)
    /\ pc \in {"ordered", "matching", "matched", "returned"} =>
           /\ Len(case_orig) = Len(case_for_matchDF)
           /\ \A i \in 1..Len(case_orig) :
                  case_orig[i] = <<case_for_matchDF[i],
                                   CompatibleControls(case_for_matchDF[i]).controlDF>>

\* C19's case: orderDict has returned, a list of three controls or more came
\* back in another order, and two controls of that list have the same
\* frequency.
C19_Witness ==
    /\ pc = "ordered"
    /\ \E i \in 1..Len(case_orig) :
           /\ Len(case_orig[i][2]) >= 3
           /\ case_dictionary[i][2] # case_orig[i][2]
           /\ \E a, b \in 1..Len(case_orig[i][2]) :
                  /\ a # b
                  /\ DictGet(control_match_count_dictionary, case_orig[i][2][a])
                       = DictGet(control_match_count_dictionary, case_orig[i][2][b])

\* The number of compatible controls of a case.
Abundance(c) == Len(DictGet(case_orig, c))

\* C20: the list that order_keys returns, as the loop finds it before its
\* first pop, holds every case once, from the most to the fewest compatible
\* controls, cases with the same number in the order of their insertion;
\* and the first case the loop pops has the fewest compatible controls of
\* all cases.
C20_OrderKeys ==
    /\ (pc = "matching" /\ popped = <<>>) =>
           /\ Len(free_keys) = Len(case_orig)
           /\ \A c \in Cases : Count(free_keys, c) = 1
           /\ \A a, b \in 1..Len(free_keys) :
                  a < b =>
                      /\ Abundance(free_keys[a]) >= Abundance(free_keys[b])
                      /\ Abundance(free_keys[a]) = Abundance(free_keys[b])
                             => PositionIn(DictKeys(case_orig), free_keys[a])
                                  < PositionIn(DictKeys(case_orig), free_keys[b])
    /\ popped # <<>> => \A c \in Cases : Abundance(popped[1]) <= Abundance(c)

\* C20's case: the first pop is made, of a case that was not inserted last,
\* another case has more compatible controls, and two cases have the same
\* number.
C20_Witness ==
    /\ pc = "matching"
    /\ Len(popped) = 1
    /\ popped[1] # case_orig[Len(case_orig)][1]
    /\ \E c \in Cases : Abundance(c) > Abundance(popped[1])
    /\ \E c, d \in Cases : c # d /\ Abundance(c) = Abundance(d)

\* C21: in every pass of the loop a control that has a holder keeps a
\* holder, and when its holder changes the new holder has fewer compatible
\* controls than the one before.
C21_HoldersOnlyImprove ==
    [][pc = "matching" =>
        \A i \in 1..Len(one_to_one_match_dictionary) :
            LET k == one_to_one_match_dictionary[i][1]
                holder == one_to_one_match_dictionary[i][2]
            IN  /\ DictHas(one_to_one_match_dictionary', k)
                /\ DictGet(one_to_one_match_dictionary', k) # holder =>
                       DictGet(case_match_count_dictionary,
                               DictGet(one_to_one_match_dictionary', k))
                         < DictGet(case_match_count_dictionary, holder)
    ]_vars

\* C21's case: two controls are held, and one of them is still held by the
\* first case that proposed to it after a case with more compatible
\* controls proposed to it too.
C21_Witness ==
    /\ pc = "matching"
    /\ Cardinality(AssignedControls) >= 2
    /\ \E i, j \in 1..Len(proposals) :
           /\ i < j
           /\ proposals[i][2] = proposals[j][2]
           /\ <<proposals[i][2], proposals[i][1]>> \in Assignment
           /\ DictGet(case_match_count_dictionary, proposals[j][1])
                > DictGet(case_match_count_dictionary, proposals[i][1])

\* How often the case c is a value of one_to_one_match_dictionary.
TimesAssigned(c) ==
    Cardinality({i \in 1..Len(one_to_one_match_dictionary) :
                     one_to_one_match_dictionary[i][2] = c})

\* C22: whenever the loop condition of line 290 is evaluated, every case is
\* once on free_keys and the value of no control, or the value of one
\* control and not on free_keys, or neither, and then it was popped and its
\* list is empty; no case is on free_keys twice or both there and assigned.
C22_OneSituation ==
    pc = "matching" =>
        \A c \in Cases :
            /\ Count(free_keys, c) + TimesAssigned(c) <= 1
            /\ Count(free_keys, c) + TimesAssigned(c) = 0 =>
                   /\ Len(DictGet(dictionary_pref, c)) = 0
                   /\ Count(popped, c) >= 1

\* C22's case: at one evaluation of the loop condition a case is on
\* free_keys, a case holds a control, and a case that proposed and was
\* turned down is left with an empty list.
C22_Witness ==
    /\ pc = "matching"
    /\ \E c \in Cases : Count(free_keys, c) = 1
    /\ \E c \in Cases : TimesAssigned(c) = 1
    /\ \E c \in Cases :
           /\ Count(free_keys, c) + TimesAssigned(c) = 0
           /\ ProposedTo(c) # {}

====
